---- MODULE Spec2Model ----
(***************************************************************************)
(* A model of greenelab/netreg:                                            *)
(*   - utilities/classify_pytorch.py : TorchLR, the random hyperparameter  *)
(*     search with inner k-fold cross-validation (specification Spec),    *)
(*     and torch_model called on any label vector (TrainerSpec);           *)
(*   - data_models.py : DataModel, loading / scaling / factorization       *)
(*     backends / PLIER disk cache (SklearnSpec and PlierSpec), and the    *)
(*     reports over all three backends (ReportSpec).                       *)
(* Matrices are abstracted to what the code's control flow depends on:     *)
(* column labels, row provenance, the fit that produced an embedding.      *)
(* Losses are small naturals; a mean is kept as the pair (sum, count).     *)
(***************************************************************************)
EXTENDS Integers, Sequences, FiniteSets, TLC

(* ---------------------------- bounds ---------------------------------- *)
\* largest num_iters passed to TorchLR
MaxIters == 2
\* largest num_inner_folds passed to TorchLR (KFold needs at least 2)
MaxFolds == 2
\* largest n_components passed to a factorization backend
MaxK == 2
\* largest number of samples in the y_train passed to torch_model
MaxSamples == 4
\* largest number of rescaling transform calls on one DataModel
MaxTransforms == 1
\* tune-split losses returned by torch_model range over 0..MaxLoss
MaxLoss == 1
\* the loss torch_model reports on the subtrain split (one value: only the
\* tune-split rows take part in the selection)
SubtrainLoss == 0

(* ------------------------ generic helpers ----------------------------- *)
Range(s) == {s[i] : i \in 1..Len(s)}

RECURSIVE SumLoss(_)
SumLoss(rows) ==
    IF rows = <<>> THEN 0 ELSE Head(rows).loss + SumLoss(Tail(rows))

RECURSIVE SetMax(_)
SetMax(S) ==
    LET x == CHOOSE y \in S : TRUE
    IN  IF S = {x} THEN x
        ELSE LET m == SetMax(S \ {x}) IN IF x > m THEN x ELSE m

(* ======================================================================= *)
(*                     the state of a DataModel (below)                    *)
(* ======================================================================= *)
(* A matrix is [genes, rows, scale]: its column labels, whether its rows   *)
(* are the training or the test samples, and the scaling it carries: "raw" *)
(* as loaded, else the mode of the last transform (a z-score and a min-max *)
(* rescaling are both unchanged by an earlier per-column affine rescaling, *)
(* so the last mode determines the values).  An optional attribute is a    *)
(* sequence of length <= 1: <<>> while unset (or None), <<v>> once set.    *)
VARIABLES
    d_pc,                \* "none" before the DataModel exists, then "live"
    transforms,          \* number of transform calls that have rescaled self.df
    df,                  \* self.df
    test_df,             \* self.test_df (<<>> is None)
    transformation,      \* self.transformation
    transform_fit,       \* self.transform_fit
    transform_test_fit,  \* self.transform_test_fit
    pca,                 \* pca_fit, pca_df, pca_weights, pca_test_df
    nmf,                 \* nmf_fit, nmf_df, nmf_weights, nmf_test_df
    plier,               \* plier_df, plier_weights, plier_test_df
    files,               \* cfg.data_dir/plier_output: (k, seed) -> the two files
    d_last               \* what the last call did, as its caller observes it

data_vars == <<d_pc, transforms, df, test_df, transformation, transform_fit,
               transform_test_fit, pca, nmf, plier, files, d_last>>

(* ======================================================================= *)
(*                  utilities/classify_pytorch.py : TorchLR                *)
(* ======================================================================= *)
VARIABLES
    t_pc,            \* position: "new", "ready", "tuning", "aggregate",
                     \*           "final", "done"
    param_choices,   \* the params_map argument of __init__ (candidate grid)
    num_iters,       \* the num_iters argument of __init__
    num_inner_folds, \* self.num_inner_folds
    params_map,      \* self.params_map
    fold,            \* loop variable of torch_param_selection (1-based)
    result,          \* the rows torch_tuning has accumulated for this fold
    results_df,      \* the local trial-record table of torch_param_selection
    best_ix,         \* local best_ix of torch_param_selection, -1 before
    cv_results_df,   \* self.cv_results_df, <<>> while the attribute is unset
    self_results_df, \* self.results_df, <<>> while the attribute is unset
    best_params,     \* self.best_params, <<>> while unset, else <<combination>>
    final_params     \* params of the last torch_model call of
                     \* train_torch_model, <<>> before it

torch_vars == <<t_pc, param_choices, num_iters, num_inner_folds, params_map,
                fold, result, results_df, best_ix,
                cv_results_df, self_results_df, best_params, final_params>>

\* what the last call of torch_model by a caller of the class did: its
\* y_train and params arguments, the exception it raised, the pos_weight it
\* computed and the losses it returned
VARIABLE tm_last

vars == <<torch_vars, data_vars, tm_last>>

\* the four hyperparameters torch_model reads
ParamNames == {"learning_rate", "batch_size", "num_epochs", "l1_penalty"}

\* candidate grids handed to the constructor: every parameter has one
\* candidate, or learning_rate has two
GridSingle == [p \in ParamNames |-> <<1>>]
GridMulti == [GridSingle EXCEPT !["learning_rate"] = <<1, 2>>]
Grids == {GridSingle, GridMulti}

\* max(len(vs) for k, vs in params_map.items())
MaxParamsLength(pm) == SetMax({Len(pm[p]) : p \in DOMAIN pm})

\* get_params_map: every outcome of num_iters seeded random.choice draws
\* per parameter (with replacement)
GetParamsMap(choices, n) ==
    {m \in [DOMAIN choices -> UNION {[1..n -> Range(choices[p])] : p \in DOMAIN choices}] :
        \A p \in DOMAIN choices : \A i \in 1..n : m[p][i] \in Range(choices[p])}

\* __init__: "if max_params_length > 1" the grid is replaced by a sample
InitSamples(choices) == MaxParamsLength(choices) > 1

\* train_torch_model: "if max_params_length > 1" over self.params_map
NeedsSearch_Always(pm) == MaxParamsLength(pm) >= 1
NeedsSearch(pm) == MaxParamsLength(pm) > 1

\* {k: v[ix] for k, v in self.params_map.items()}, ix is 0-based
ParamsAt(pm, ix) == [p \in DOMAIN pm |-> pm[p][ix + 1]]

\* num_iters as torch_tuning recomputes it: length of the first list
TuningIters(pm) == Len(pm[CHOOSE p \in DOMAIN pm : TRUE])

TorchInit ==
    /\ t_pc = "new"
    /\ param_choices = GridSingle
    /\ num_iters = 1
    /\ num_inner_folds = 2
    /\ params_map = GridSingle
    /\ fold = 0
    /\ result = <<>>
    /\ results_df = <<>>
    /\ best_ix = -1
    /\ cv_results_df = <<>>
    /\ self_results_df = <<>>
    /\ best_params = <<>>
    /\ final_params = <<>>

\* TorchLR.__init__
TorchLR_init ==
    /\ UNCHANGED <<data_vars, tm_last>>
    /\ t_pc = "new"
    /\ \E g \in Grids, n \in 1..MaxIters, f \in 2..MaxFolds :
         /\ param_choices' = g
         /\ num_iters' = n
         /\ num_inner_folds' = f
         /\ IF InitSamples(g)
            THEN \E m \in GetParamsMap(g, n) : params_map' = m
            ELSE params_map' = g
    /\ t_pc' = "ready"
    /\ UNCHANGED <<fold, result, results_df, best_ix,
                   cv_results_df, self_results_df, best_params, final_params>>

\* train_torch_model, up to the branch on max_params_length
train_torch_model ==
    /\ UNCHANGED <<data_vars, tm_last>>
    /\ t_pc = "ready"
    /\ IF NeedsSearch(params_map)
       THEN /\ t_pc' = "tuning"
            /\ fold' = 1
            /\ UNCHANGED best_params
       ELSE /\ t_pc' = "final"
            /\ best_params' = <<ParamsAt(params_map, 0)>>
            /\ UNCHANGED fold
    /\ UNCHANGED <<param_choices, num_iters, num_inner_folds, params_map,
                   result, results_df, best_ix, cv_results_df,
                   self_results_df, final_params>>

\* the two rows torch_tuning appends for parameter set ix
TrialRows(pm, ix, train_loss, tune_loss) ==
    << [param_set |-> ix, split |-> "train", loss |-> train_loss,
        params |-> ParamsAt(pm, ix)],
       [param_set |-> ix, split |-> "tune", loss |-> tune_loss,
        params |-> ParamsAt(pm, ix)] >>

\* result_df['fold'] = fold, with fold from enumerate(kf.split(X_train), 1)
LabelFold_ZeroBased(rows, f) ==
    [i \in 1..Len(rows) |->
        [param_set |-> rows[i].param_set, split |-> rows[i].split,
         loss |-> rows[i].loss, params |-> rows[i].params, fold |-> f - 1]]
LabelFold(rows, f) ==
    [i \in 1..Len(rows) |->
        [param_set |-> rows[i].param_set, split |-> rows[i].split,
         loss |-> rows[i].loss, params |-> rows[i].params, fold |-> f]]

\* one iteration of torch_tuning's loop over parameter sets; the last one of
\* a fold also returns to torch_param_selection, which labels the rows with
\* the fold and concatenates them to results_df
torch_tuning ==
    /\ UNCHANGED <<data_vars, tm_last>>
    /\ t_pc = "tuning"
    /\ LET ix == Len(result) \div 2
       IN \E tune_loss \in 0..MaxLoss :
          LET rows == result \o TrialRows(params_map, ix, SubtrainLoss, tune_loss)
          IN IF ix + 1 < TuningIters(params_map)
             THEN /\ result' = rows
                  /\ UNCHANGED <<t_pc, fold, results_df>>
             ELSE /\ results_df' = results_df \o LabelFold(rows, fold)
                  /\ result' = <<>>
                  /\ IF fold < num_inner_folds
                     THEN /\ fold' = fold + 1
                          /\ UNCHANGED t_pc
                     ELSE /\ t_pc' = "aggregate"
                          /\ UNCHANGED fold
    /\ UNCHANGED <<param_choices, num_iters, num_inner_folds, params_map,
                   best_ix, cv_results_df, self_results_df,
                   best_params, final_params>>

\* results_df.loc[results_df['train/tune'] == 'tune']
TuneOnly(table) == SelectSeq(table, LAMBDA r : r.split = "tune")

\* .groupby('param_set').mean(): one row per id, ascending id, the mean loss
\* kept as (sum, count)
GroupbyMean(table) ==
    LET ids == {table[i].param_set : i \in 1..Len(table)}
        rowsOf(id) == SelectSeq(table, LAMBDA r : r.param_set = id)
    IN  {[param_set |-> id, loss_sum |-> SumLoss(rowsOf(id)),
          count |-> Len(rowsOf(id))] : id \in ids}

\* a/b <= c/d for positive b, d
MeanLeq(x, y) == x.loss_sum * y.count <= y.loss_sum * x.count

\* .sort_values(by='loss').reset_index(): every ascending order of the
\* groups; the default sort kind gives no order among equal means
SortValues_Descending(groups) ==
    {s \in [1..Cardinality(groups) -> groups] :
        /\ \A i, j \in DOMAIN s : i # j => s[i] # s[j]
        /\ \A i, j \in DOMAIN s : i < j => MeanLeq(s[j], s[i])}
SortValues(groups) ==
    {s \in [1..Cardinality(groups) -> groups] :
        /\ \A i, j \in DOMAIN s : i # j => s[i] # s[j]
        /\ \A i, j \in DOMAIN s : i < j => MeanLeq(s[i], s[j])}

\* results_df[results_df['param_set'] == best_ix]
WinnerRows(table, ix) == SelectSeq(table, LAMBDA r : r.param_set = ix)

\* torch_param_selection after the fold loop, and the return into
\* train_torch_model (self.results_df, self.best_params)
torch_param_selection ==
    /\ UNCHANGED <<data_vars, tm_last>>
    /\ t_pc = "aggregate"
    /\ \E sorted_df \in SortValues(GroupbyMean(TuneOnly(results_df))) :
         LET ix == sorted_df[1].param_set
         IN /\ best_ix' = ix
            /\ best_params' = <<ParamsAt(params_map, ix)>>
            /\ cv_results_df' = WinnerRows(results_df, ix)
    /\ self_results_df' = results_df
    /\ t_pc' = "final"
    /\ UNCHANGED <<param_choices, num_iters, num_inner_folds, params_map,
                   fold, result, results_df, final_params>>

\* the final torch_model(X_train, X_test, y_train, y_test, best_params)
torch_model ==
    /\ UNCHANGED <<data_vars, tm_last>>
    /\ t_pc = "final"
    /\ final_params' = best_params
    /\ t_pc' = "done"
    /\ UNCHANGED <<param_choices, num_iters, num_inner_folds, params_map,
                   fold, result, results_df, best_ix,
                   cv_results_df, self_results_df, best_params>>

\* the y_train argument of torch_model: binary labels, one per sample
Labels == UNION {[1..n -> {0, 1}] : n \in 1..MaxSamples}

\* the params argument of torch_model: one value per hyperparameter
TrainerParams == {ParamsAt(pm, 0) : pm \in GetParamsMap(GridMulti, 1)}

\* np.bincount(y_train): the count of each label 0..max(y_train), as a
\* sequence whose element c + 1 is the count of label c
CountOf(y, c) == Cardinality({i \in DOMAIN y : y[i] = c})
Bincount(y) == [c \in 1..(SetMax(Range(y)) + 1) |-> CountOf(y, c - 1)]

\* pos_weight = train_count[0] / train_count[1], kept as the pair
\* (numerator, denominator); train_count[1] does not exist when y_train
\* has no label 1
PosWeight(y) ==
    IF Len(Bincount(y)) < 2
    THEN [exc |-> "IndexError", pos_weight |-> <<>>]
    ELSE [exc |-> "none",
          pos_weight |-> <<[num |-> Bincount(y)[1], den |-> Bincount(y)[2]]>>]

NoTorchModelCall ==
    [op |-> "none", y_train |-> <<>>, params |-> <<>>, exc |-> "none",
     pos_weight |-> <<>>, trained |-> FALSE, losses |-> <<>>]

\* torch_model(X_train, X_test, y_train, y_test, params) called on its own:
\* the class-imbalance weight, then the training loop and the two losses
torch_model_call ==
    /\ \E y \in Labels, params \in TrainerParams, test_loss \in 0..MaxLoss :
         LET w == PosWeight(y)
             call == [NoTorchModelCall EXCEPT !.op = "torch_model",
                                              !.y_train = y,
                                              !.params = <<params>>,
                                              !.exc = w.exc,
                                              !.pos_weight = w.pos_weight]
         IN tm_last' = IF w.exc # "none" THEN call
                       ELSE [call EXCEPT !.trained = TRUE,
                                         !.losses = <<SubtrainLoss, test_loss>>]
    /\ UNCHANGED <<torch_vars, data_vars>>

TorchNext ==
    \/ TorchLR_init
    \/ train_torch_model
    \/ torch_tuning
    \/ torch_param_selection
    \/ torch_model

(* ======================================================================= *)
(*                       data_models.py : DataModel                        *)
(* ======================================================================= *)
\* column labels of the training matrix, of the candidate test matrices, and
\* the genes of the pathway dataset PLIER restricts itself to
TrainGenes == {"g1", "g2"}
TestGeneSets == {{"g1", "g2"}, {"g1", "g3"}, {"g1", "g2", "g3"}}
PathwayGenes == {"g1", "g2"}

Matrix(g, r) == [genes |-> g, rows |-> r, scale |-> "raw"]

\* the test-matrix argument of the constructor: absent, a file, or a frame
TestInputs ==
    {[via |-> "none", genes |-> {}]} \cup
    {[via |-> v, genes |-> g] : v \in {"file", "df"}, g \in TestGeneSets}

\* the strings transform is called with; "log" is not a recognised mode
Modes == {"zscore", "zeroone"}
HowValues == Modes \cup {"log"}

\* raw expression data is non-negative; zscore output is not, zeroone is
NonNegative(m) == m.scale \in {"raw", "zeroone"}

Unset == [fit |-> <<>>, df |-> <<>>, weights |-> <<>>, test_df |-> <<>>]

\* the attributes a fit_transform on matrix m sets
FitOf(k, m, ok) == [k |-> k, on |-> m, fitted |-> ok]
EmbeddingOf(k, m, on) == [k |-> k, rows |-> m, fit |-> FitOf(k, on, TRUE)]
WeightsOf(k, g, on) == [k |-> k, genes |-> g, fit |-> FitOf(k, on, TRUE)]

Call(op) ==
    [op |-> op, k |-> 0, seed |-> 0, how |-> "", via |-> "",
     select_columns |-> FALSE,
     transform_df |-> FALSE, transform_test_df |-> FALSE,
     exc |-> "none", returned |-> FALSE, projected |-> FALSE,
     invocations |-> 0, exit |-> 0, read |-> 0,
     include_labels |-> FALSE, include_raw |-> FALSE, test_set |-> FALSE,
     result |-> <<>>, costs |-> <<>>]

\* plier's default seed, the only one the model calls it with
DefaultSeed == 1

\* plier_k{k}_s{seed}_z.tsv and ..._b.tsv, no file written yet
NoFiles == [key \in (1..MaxK) \X {DefaultSeed} |-> [z |-> <<>>, b |-> <<>>]]

DataInit ==
    /\ d_pc = "none"
    /\ transforms = 0
    /\ df = <<>>
    /\ test_df = <<>>
    /\ transformation = <<>>
    /\ transform_fit = <<>>
    /\ transform_test_fit = <<>>
    /\ pca = Unset
    /\ nmf = Unset
    /\ plier = Unset
    /\ files = NoFiles
    /\ d_last = Call("none")

\* assert self.num_genes == self.num_test_genes
SameNumberOfGenes(train_genes, test_genes) ==
    Cardinality(train_genes) = Cardinality(test_genes)

\* DataModel.__init__(df/filename, select_columns, test_filename/test_df):
\* the exception it raises, "none" when the object is constructed
InitOutcome(select_columns, test) ==
    IF select_columns
    THEN "AttributeError"    \* line 50 reads self.test_df before it is set
    ELSE IF test.via = "file" /\ ~SameNumberOfGenes(TrainGenes, test.genes)
         THEN "AssertionError"
         ELSE "none"

DataModel_init ==
    /\ d_pc = "none"
    /\ \E select_columns \in BOOLEAN, test \in TestInputs :
         LET exc == InitOutcome(select_columns, test)
         IN /\ d_last' = [Call("init") EXCEPT !.exc = exc, !.via = test.via,
                                             !.select_columns = select_columns]
            /\ IF exc # "none"
               THEN UNCHANGED <<d_pc, df, test_df, transformation, transform_fit,
                                transform_test_fit, pca, nmf, plier>>
               ELSE /\ d_pc' = "live"
                    /\ df' = <<Matrix(TrainGenes, "train")>>
                    /\ test_df' = IF test.via = "none" THEN <<>>
                                  ELSE <<Matrix(test.genes, "test")>>
                    /\ transformation' = <<>>
                    /\ transform_fit' = <<>>
                    /\ transform_test_fit' = <<>>
                    /\ pca' = Unset
                    /\ nmf' = Unset
                    /\ plier' = Unset
    /\ UNCHANGED <<transforms, files>>
    /\ UNCHANGED <<torch_vars, tm_last>>

\* DataModel.transform(how)
Scaled(m, how) == [m EXCEPT !.scale = how]

transform ==
    /\ d_pc = "live"
    /\ \E how \in HowValues :
         /\ how \in Modes => transforms < MaxTransforms
         /\ transforms' = IF how \in Modes THEN transforms + 1 ELSE transforms
         /\ transformation' = <<how>>
         /\ IF how \notin Modes
            THEN /\ d_last' = [Call("transform") EXCEPT !.how = how,
                                                        !.exc = "ValueError"]
                 /\ UNCHANGED <<df, test_df, transform_fit, transform_test_fit>>
            ELSE /\ d_last' = [Call("transform") EXCEPT !.how = how]
                 /\ transform_fit' = <<[how |-> how, on |-> df[1]]>>
                 /\ df' = <<Scaled(df[1], how)>>
                 /\ IF test_df # <<>>
                    THEN /\ transform_test_fit' = <<[how |-> how, on |-> test_df[1]]>>
                         /\ test_df' = <<Scaled(test_df[1], how)>>
                    ELSE UNCHANGED <<test_df, transform_test_fit>>
    /\ UNCHANGED <<d_pc, pca, nmf, plier, files>>
    /\ UNCHANGED <<torch_vars, tm_last>>

\* <fit>.transform(self.test_df) of a fitted sklearn decomposition: the
\* exception it raises ("none": it returns the projection)
SkTransformTest(needs_nonneg) ==
    IF test_df = <<>> THEN "TypeError"
    ELSE IF ~SameNumberOfGenes(df[1].genes, test_df[1].genes) THEN "ValueError"
    ELSE IF needs_nonneg /\ ~NonNegative(test_df[1]) THEN "ValueError"
    ELSE "none"

\* the body of pca()/nmf() after a successful fit_transform: the early
\* return on transform_df, then the test projection
AfterFit(op, old, k, t_df, t_test_df, needs_nonneg) ==
    LET fitted == [old EXCEPT !.fit = <<FitOf(k, df[1], TRUE)>>,
                              !.df = <<EmbeddingOf(k, df[1], df[1])>>,
                              !.weights = <<WeightsOf(k, df[1].genes, df[1])>>]
        call == [Call(op) EXCEPT !.transform_df = t_df,
                                 !.transform_test_df = t_test_df]
    IN  IF t_df
        THEN [attrs |-> fitted, call |-> [call EXCEPT !.returned = TRUE]]
        ELSE IF ~t_test_df
        THEN [attrs |-> fitted, call |-> call]
        ELSE IF SkTransformTest(needs_nonneg) # "none"
        THEN [attrs |-> fitted,
              call |-> [call EXCEPT !.exc = SkTransformTest(needs_nonneg)]]
        ELSE [attrs |-> [fitted EXCEPT
                           !.test_df = <<EmbeddingOf(k, test_df[1], df[1])>>],
              call |-> [call EXCEPT !.projected = TRUE]]

\* DataModel.pca(n_components, transform_df, transform_test_df)
pca_call ==
    /\ d_pc = "live"
    /\ \E k \in 1..MaxK, t_df \in BOOLEAN, t_test_df \in BOOLEAN :
         /\ k <= Cardinality(df[1].genes)
         /\ LET r == AfterFit("pca", pca, k, t_df, t_test_df, FALSE)
            IN /\ pca' = r.attrs
               /\ d_last' = r.call
    /\ UNCHANGED <<d_pc, transforms, df, test_df, transformation,
                   transform_fit, transform_test_fit, nmf, plier, files>>
    /\ UNCHANGED <<torch_vars, tm_last>>

\* DataModel.nmf(n_components, transform_df, transform_test_df), default
\* seed; NMF.fit_transform rejects a matrix with negative entries after
\* self.nmf_fit has been assigned
nmf_call ==
    /\ d_pc = "live"
    /\ \E k \in 1..MaxK, t_df \in BOOLEAN, t_test_df \in BOOLEAN :
         /\ k <= Cardinality(df[1].genes)
         /\ IF ~NonNegative(df[1])
            THEN /\ nmf' = [nmf EXCEPT !.fit = <<FitOf(k, df[1], FALSE)>>]
                 /\ d_last' = [Call("nmf") EXCEPT
                                  !.transform_df = t_df,
                                  !.transform_test_df = t_test_df,
                                  !.exc = "ValueError"]
            ELSE LET r == AfterFit("nmf", nmf, k, t_df, t_test_df, TRUE)
                 IN /\ nmf' = r.attrs
                    /\ d_last' = r.call
    /\ UNCHANGED <<d_pc, transforms, df, test_df, transformation,
                   transform_fit, transform_test_fit, pca, plier, files>>
    /\ UNCHANGED <<torch_vars, tm_last>>

\* os.path.exists(output_data) / os.path.exists(output_weights): the tool is
\* run when either file of this (k, seed) is missing
CacheMiss_BothMissing(f, key) == f[key].z = <<>> /\ f[key].b = <<>>
CacheMiss(f, key) == f[key].z = <<>> \/ f[key].b = <<>>

\* subprocess.check_call raises CalledProcessError on a non-zero exit
CheckCallRaises_Ignored(exit) == FALSE
CheckCallRaises(exit) == exit # 0

\* what one run of run_plier.R may do: succeed and write both files, fail
\* and write nothing, or fail leaving a truncated _z.tsv file
TruncatedFile == [genes |-> {}, rows |-> "train", scale |-> "raw"]
ToolOutcomes == {"ok", "fail", "fail_z"}
ToolExit(outcome) == IF outcome = "ok" THEN 0 ELSE 1
ToolRun(outcome, f, key, m) ==
    IF outcome = "ok" THEN [f EXCEPT ![key] = [z |-> <<m>>, b |-> <<m>>]]
    ELSE IF outcome = "fail_z" THEN [f EXCEPT ![key].z = <<TruncatedFile>>]
    ELSE f

\* plier() from the two read_csv calls on: plier_df from the _b file,
\* plier_weights from the _z file, the test-matrix filter, the early return
\* on transform_df, then _plier_on_test_data (an NMF transform, which
\* rejects negative entries)
PlierLoad(old, f, key, t_df, t_test_df, call) ==
    IF f[key].b = <<>>
    THEN [attrs |-> old, call |-> [call EXCEPT !.exc = "FileNotFoundError"]]
    ELSE
    LET k == key[1]
        src_b == f[key].b[1]
        with_df == [old EXCEPT !.df = <<EmbeddingOf(k, src_b, src_b)>>]
    IN  IF f[key].z = <<>>
        THEN [attrs |-> with_df,
              call |-> [call EXCEPT !.exc = "FileNotFoundError", !.read = 1]]
        ELSE
        LET src_z == f[key].z[1]
            wgenes == src_z.genes \cap PathwayGenes
            loaded == [with_df EXCEPT !.weights = <<WeightsOf(k, wgenes, src_z)>>]
            call2 == [call EXCEPT !.read = 2]
        IN  IF test_df = <<>>
            THEN [attrs |-> loaded, call |-> [call2 EXCEPT !.exc = "TypeError"]]
            ELSE IF ~(wgenes \subseteq test_df[1].genes)
            THEN [attrs |-> loaded, call |-> [call2 EXCEPT !.exc = "KeyError"]]
            ELSE IF t_df
            THEN [attrs |-> loaded, call |-> [call2 EXCEPT !.returned = TRUE]]
            ELSE IF ~t_test_df
            THEN [attrs |-> loaded, call |-> call2]
            ELSE IF ~NonNegative(test_df[1])
            THEN [attrs |-> loaded, call |-> [call2 EXCEPT !.exc = "ValueError"]]
            ELSE [attrs |-> [loaded EXCEPT !.test_df =
                     <<EmbeddingOf(k, [test_df[1] EXCEPT !.genes = wgenes], src_z)>>],
                  call |-> [call2 EXCEPT !.projected = TRUE]]

\* DataModel.plier(n_components, transform_df, transform_test_df, seed)
plier_call ==
    /\ d_pc = "live"
    /\ \E k \in 1..MaxK, seed \in {DefaultSeed},
          t_df \in BOOLEAN, t_test_df \in BOOLEAN :
         LET key == <<k, seed>>
             call == [Call("plier") EXCEPT !.k = k, !.seed = seed,
                                           !.transform_df = t_df,
                                           !.transform_test_df = t_test_df]
         IN IF CacheMiss(files, key)
            THEN \E outcome \in ToolOutcomes :
                   LET f2 == ToolRun(outcome, files, key, df[1])
                       ran == [call EXCEPT !.invocations = 1,
                                           !.exit = ToolExit(outcome)]
                   IN /\ files' = f2
                      /\ IF CheckCallRaises(ToolExit(outcome))
                         THEN /\ plier' = plier
                              /\ d_last' = [ran EXCEPT !.exc = "CalledProcessError"]
                         ELSE LET r == PlierLoad(plier, f2, key, t_df, t_test_df, ran)
                              IN /\ plier' = r.attrs
                                 /\ d_last' = r.call
            ELSE LET r == PlierLoad(plier, files, key, t_df, t_test_df, call)
                 IN /\ files' = files
                    /\ plier' = r.attrs
                    /\ d_last' = r.call
    /\ UNCHANGED <<d_pc, transforms, df, test_df, transformation,
                   transform_fit, transform_test_fit, pca, nmf>>
    /\ UNCHANGED <<torch_vars, tm_last>>

\* hasattr(self, 'pca_df') / 'nmf_df' / 'plier_df': the backends that
\* combine_models, combine_weight_matrix and compile_reconstruction use
HasRun(attrs) == attrs.df # <<>>
BackendsRun ==
    {b \in {"pca", "nmf", "plier"} :
        \/ b = "pca" /\ HasRun(pca)
        \/ b = "nmf" /\ HasRun(nmf)
        \/ b = "plier" /\ HasRun(plier)}

\* the backends in the order combine_models and compile_reconstruction
\* visit them, each with its attributes, those never run left out
RunBackends ==
    SelectSeq(<<[name |-> "pca", attrs |-> pca],
                [name |-> "nmf", attrs |-> nmf],
                [name |-> "plier", attrs |-> plier]>>,
              LAMBDA b : HasRun(b.attrs))

\* the exception of the first element of a sequence of outcomes that has one
RECURSIVE FirstExc(_)
FirstExc(outcomes) ==
    IF outcomes = <<>> THEN "none"
    ELSE IF Head(outcomes).exc # "none" THEN Head(outcomes).exc
    ELSE FirstExc(Tail(outcomes))

\* self.other_df is assigned only under select_columns (line 48), in a
\* constructor call that then raises: no constructed DataModel has it
OtherDf == <<>>

\* combine_models, one backend: the frame appended to all_models, or the
\* exception raised building it.  With test_set the frame wraps the
\* <backend>_test_df array in the test matrix's index and the in-sample
\* embedding's columns, which must agree in number with the array's.
ModelFrame_FallBackToTrain(b, test_set) ==
    IF test_set /\ b.attrs.test_df # <<>> /\ b.attrs.test_df[1].k = b.attrs.df[1].k
    THEN [exc |-> "none",
          frame |-> [name |-> b.name, index |-> test_df[1].rows,
                     columns |-> b.attrs.df[1].k, data |-> b.attrs.test_df[1]]]
    ELSE [exc |-> "none",
          frame |-> [name |-> b.name, index |-> b.attrs.df[1].rows.rows,
                     columns |-> b.attrs.df[1].k, data |-> b.attrs.df[1]]]
ModelFrame(b, test_set) ==
    IF ~test_set
    THEN [exc |-> "none",
          frame |-> [name |-> b.name, index |-> b.attrs.df[1].rows.rows,
                     columns |-> b.attrs.df[1].k, data |-> b.attrs.df[1]]]
    ELSE IF b.attrs.test_df = <<>> \/ test_df = <<>>
    THEN [exc |-> "AttributeError", frame |-> <<>>]
    ELSE IF b.attrs.test_df[1].k # b.attrs.df[1].k
    THEN [exc |-> "ValueError", frame |-> <<>>]
    ELSE [exc |-> "none",
          frame |-> [name |-> b.name, index |-> test_df[1].rows,
                     columns |-> b.attrs.df[1].k, data |-> b.attrs.test_df[1]]]

\* DataModel.combine_models(include_labels, include_raw, test_set)
combine_models ==
    /\ d_pc = "live"
    /\ \E include_labels \in BOOLEAN, include_raw \in BOOLEAN,
          test_set \in BOOLEAN :
         LET call == [Call("combine_models") EXCEPT
                         !.include_labels = include_labels,
                         !.include_raw = include_raw,
                         !.test_set = test_set]
             models == [i \in 1..Len(RunBackends) |->
                          ModelFrame(RunBackends[i], test_set)]
             raw == IF include_raw
                    THEN <<[name |-> "raw", index |-> df[1].rows,
                            columns |-> df[1].genes, data |-> df[1]]>>
                    ELSE <<>>
             all_models == [i \in 1..Len(models) |-> models[i].frame] \o raw
         IN  d_last' =
               IF FirstExc(models) # "none"
               THEN [call EXCEPT !.exc = FirstExc(models)]
               ELSE IF include_labels /\ OtherDf = <<>>
               THEN [call EXCEPT !.exc = "AttributeError"]
               ELSE IF all_models \o OtherDf = <<>>
               THEN [call EXCEPT !.exc = "ValueError"]   \* pd.concat of nothing
               ELSE [call EXCEPT !.returned = TRUE,
                                 !.result = all_models \o OtherDf]
    /\ UNCHANGED <<d_pc, transforms, df, test_df, transformation,
                   transform_fit, transform_test_fit, pca, nmf, plier, files>>
    /\ UNCHANGED <<torch_vars, tm_last>>

\* compile_reconstruction, one backend: the entry added to reconstruct_mat
\* (labelled with input_df's index and columns) or the exception raised.
\* inverse_transform needs a fitted model and an embedding of its own
\* n_components; for plier input_df is first cut to the weight matrix's
\* columns and the embedding is multiplied with the weight matrix.
Reconstruction_TrainLabels(b, test_set) ==
    LET emb == IF test_set THEN b.attrs.test_df ELSE b.attrs.df
    IN  IF emb = <<>> \/ (test_set /\ test_df = <<>>)
        THEN [exc |-> "AttributeError", entry |-> <<>>]
        ELSE [exc |-> "none",
              entry |-> [name |-> b.name, index |-> df[1].rows,
                         columns |-> df[1].genes, approximates |-> df]]
Reconstruction(b, test_set) ==
    LET input_df == IF test_set THEN test_df ELSE df
        emb == IF test_set THEN b.attrs.test_df ELSE b.attrs.df
        fail(e) == [exc |-> e, entry |-> <<>>]
    IN  IF b.name = "plier"
        THEN IF b.attrs.weights = <<>> THEN fail("AttributeError")
             ELSE IF input_df = <<>> THEN fail("TypeError")
             ELSE IF ~(b.attrs.weights[1].genes \subseteq input_df[1].genes)
             THEN fail("KeyError")
             ELSE IF emb = <<>> THEN fail("AttributeError")
             ELSE IF emb[1].k # b.attrs.weights[1].k THEN fail("ValueError")
             ELSE [exc |-> "none",
                   entry |-> [name |-> b.name, index |-> input_df[1].rows,
                              columns |-> b.attrs.weights[1].genes,
                              approximates |->
                                <<[input_df[1] EXCEPT
                                     !.genes = b.attrs.weights[1].genes]>>]]
        ELSE IF emb = <<>> THEN fail("AttributeError")
             ELSE IF ~b.attrs.fit[1].fitted THEN fail("NotFittedError")
             ELSE IF emb[1].k # b.attrs.fit[1].k THEN fail("ValueError")
             ELSE IF input_df = <<>> THEN fail("AttributeError")
             ELSE [exc |-> "none",
                   entry |-> [name |-> b.name, index |-> input_df[1].rows,
                              columns |-> input_df[1].genes,
                              approximates |-> input_df]]

\* DataModel.compile_reconstruction(test_set): the cost table has one
\* column, and reconstruct_mat one key, per backend visited
compile_reconstruction ==
    /\ d_pc = "live"
    /\ \E test_set \in BOOLEAN :
         LET call == [Call("compile_reconstruction") EXCEPT
                         !.test_set = test_set]
             recons == [i \in 1..Len(RunBackends) |->
                          Reconstruction(RunBackends[i], test_set)]
         IN  d_last' =
               IF FirstExc(recons) # "none"
               THEN [call EXCEPT !.exc = FirstExc(recons)]
               ELSE [call EXCEPT
                       !.returned = TRUE,
                       !.costs = [i \in 1..Len(recons) |-> recons[i].entry.name],
                       !.result = [i \in 1..Len(recons) |-> recons[i].entry]]
    /\ UNCHANGED <<d_pc, transforms, df, test_df, transformation,
                   transform_fit, transform_test_fit, pca, nmf, plier, files>>
    /\ UNCHANGED <<torch_vars, tm_last>>

\* one DataModel and the sklearn backends
SklearnNext ==
    \/ DataModel_init
    \/ transform
    \/ pca_call
    \/ nmf_call

\* one DataModel with its matrices as loaded, all three backends and the
\* two reports over them
ReportNext ==
    \/ DataModel_init
    \/ pca_call
    \/ nmf_call
    \/ plier_call
    \/ combine_models
    \/ compile_reconstruction

\* one DataModel and the PLIER backend with its disk cache
PlierNext ==
    \/ DataModel_init
    \/ transform
    \/ plier_call

\* torch_model called directly, on any label vector (Spec follows the search
\* on a label vector every split of which holds both classes)
TrainerNext == torch_model_call

Init == TorchInit /\ DataInit /\ tm_last = NoTorchModelCall
Next == TorchNext
Spec == Init /\ [][Next]_vars
SklearnSpec == Init /\ [][SklearnNext]_vars
PlierSpec == Init /\ [][PlierNext]_vars
ReportSpec == Init /\ [][ReportNext]_vars
TrainerSpec == Init /\ [][TrainerNext]_vars

(* ======================================================================= *)
(*                       claims about TorchLR (Spec)                       *)
(* ======================================================================= *)
AllSingleton(choices) == \A p \in DOMAIN choices : Len(choices[p]) = 1
OnlyCombination(choices) == [p \in DOMAIN choices |-> choices[p][1]]
SearchRan == best_ix # -1

\* C1: when every parameter of the candidate grid has exactly one candidate,
\* then for every sampled seed and every num_iters the inner search is never
\* entered, no trial record is produced, and the final torch_model call is
\* made with exactly that single combination as best_params.
C1_SingletonGridSkipsSearch ==
    (t_pc # "new" /\ AllSingleton(param_choices)) =>
        /\ t_pc \notin {"tuning", "aggregate"}
        /\ result = <<>> /\ results_df = <<>>
        /\ self_results_df = <<>> /\ cv_results_df = <<>>
        /\ best_ix = -1
        /\ (t_pc \in {"final", "done"} =>
                best_params = <<OnlyCombination(param_choices)>>)
        /\ (final_params # <<>> =>
                final_params = <<OnlyCombination(param_choices)>>)

C1_Witness ==
    /\ t_pc = "done"
    /\ AllSingleton(param_choices)
    /\ num_iters = MaxIters
    /\ final_params = <<OnlyCombination(param_choices)>>

\* C2: when the candidate grid offers more than one choice for at least one
\* hyperparameter, then for every num_iters >= 1 the final training is
\* reached only after torch_param_selection has produced the best parameter
\* set (the trial records and the winner's records exist).
C2_MultiGridAlwaysSearches ==
    (t_pc \in {"final", "done"} /\ ~AllSingleton(param_choices)
        /\ num_iters >= 1) =>
        /\ SearchRan
        /\ self_results_df # <<>>
        /\ cv_results_df # <<>>

\* the tune-split losses of parameter set id in the trial-record table
C3_TuneRows(id) ==
    SelectSeq(self_results_df,
              LAMBDA r : r.split = "tune" /\ r.param_set = id)
C3_Ids == {self_results_df[i].param_set : i \in 1..Len(self_results_df)}

\* C3: when torch_param_selection has finished, the mean tune-split loss of
\* the selected parameter-set id (over all inner folds) is <= that of every
\* other candidate id of the trial-record table, and best_params is the
\* combination stored at that id.
C3_BestHasMinMeanTuneLoss ==
    SearchRan =>
        /\ best_ix \in C3_Ids
        /\ \A j \in C3_Ids :
              SumLoss(C3_TuneRows(best_ix)) * Len(C3_TuneRows(j))
                 <= SumLoss(C3_TuneRows(j)) * Len(C3_TuneRows(best_ix))
        /\ best_params = <<[p \in ParamNames |-> params_map[p][best_ix + 1]]>>

C3_Witness ==
    /\ t_pc = "done"
    /\ SearchRan
    /\ best_ix = 1
    /\ SumLoss(C3_TuneRows(1)) < SumLoss(C3_TuneRows(0))

\* C4: after a completed search the best id has exactly num_inner_folds
\* tune-split rows in the full trial-record table, one per fold id
\* 1..num_inner_folds, and cv_results_df holds rows of that id only.
C4_BestHasOneTuneRowPerFold ==
    SearchRan =>
        /\ Len(C3_TuneRows(best_ix)) = num_inner_folds
        /\ \A f \in 1..num_inner_folds :
              Cardinality({i \in 1..Len(self_results_df) :
                             /\ self_results_df[i].param_set = best_ix
                             /\ self_results_df[i].split = "tune"
                             /\ self_results_df[i].fold = f}) = 1
        /\ cv_results_df # <<>>
        /\ \A i \in 1..Len(cv_results_df) :
              cv_results_df[i].param_set = best_ix

C4_Witness ==
    /\ t_pc = "done"
    /\ SearchRan
    /\ best_ix = 1
    /\ num_inner_folds = MaxFolds
    /\ Len(self_results_df) > Len(cv_results_df)

\* C15: when several parameter-set ids share the minimum mean tune loss,
\* the search selects the smallest of them (the first encountered).
C15_TieGoesToSmallestId ==
    (SearchRan /\ t_pc \in {"final", "done"}) =>
        \A id \in C3_Ids :
            (SumLoss(C3_TuneRows(id)) * Len(C3_TuneRows(best_ix))
               = SumLoss(C3_TuneRows(best_ix)) * Len(C3_TuneRows(id)))
            => best_ix <= id

\* C12: torch_model called with a y_train that has no member of class 0 or
\* no member of class 1 raises before it trains, in both cases.
C12_DegenerateLabelsAbort ==
    (/\ tm_last.op = "torch_model"
     /\ (CountOf(tm_last.y_train, 0) = 0 \/ CountOf(tm_last.y_train, 1) = 0))
    => (tm_last.exc # "none" /\ ~tm_last.trained)

(* ======================================================================= *)
(*            claims about DataModel (SklearnSpec, PlierSpec)              *)
(* ======================================================================= *)
BackendOps == {"pca", "nmf", "plier"}

\* C5: no DataModel is ever constructed whose test matrix has gene columns
\* that differ from the training matrix's, whether the test matrix came
\* from test_filename or from test_df (construction fails instead).
C5_TestGenesMatchTrain ==
    (d_pc = "live" /\ test_df # <<>>) => test_df[1].genes = df[1].genes

\* C6: transform(how) with a mode other than zscore / zeroone fails, and
\* the failed call leaves the training matrix, the test matrix, the fitted
\* scalers and the recorded scaling mode as they were before it.
C6_InvalidModeNoEffect ==
    [][(d_last'.op = "transform" /\ d_last'.how \notin Modes) =>
          /\ d_last'.exc # "none"
          /\ df' = df
          /\ test_df' = test_df
          /\ transform_fit' = transform_fit
          /\ transform_test_fit' = transform_test_fit
          /\ transformation' = transformation]_vars

\* C7: for every backend and every combination of the two flags, a call
\* on a DataModel with a test matrix that completes returns the in-sample
\* embedding iff transform_df is set and stores the test projection iff
\* transform_test_df is set.
C7_FlagsIndependent ==
    (d_last.op \in BackendOps /\ d_last.exc = "none" /\ test_df # <<>>) =>
        /\ d_last.returned <=> d_last.transform_df
        /\ d_last.projected <=> d_last.transform_test_df

BothFiles(f, key) == f[key].z # <<>> /\ f[key].b # <<>>

\* C8: a plier call runs the external tool iff at least one of the two
\* output files of its (k, seed) is missing; a call that succeeds leaves
\* both files, and files once present stay as they are, so every later
\* call with the same (k, seed) loads them without running the tool, while
\* a call with another k whose files are absent runs it.
C8_CacheDecidesInvocation ==
    [][/\ d_last'.op = "plier" =>
            LET key == <<d_last'.k, d_last'.seed>>
            IN /\ (d_last'.invocations > 0) <=> ~BothFiles(files, key)
               /\ d_last'.exc = "none" => BothFiles(files', key)
               /\ \A other \in DOMAIN files :
                     other # key => files'[other] = files[other]
       /\ \A key \in DOMAIN files :
            BothFiles(files, key) => files'[key] = files[key]]_vars

C8_Witness ==
    /\ d_last.op = "plier"
    /\ d_last.k = 1
    /\ d_last.invocations = 0
    /\ d_last.read = 2
    /\ d_last.exc = "none"
    /\ ~BothFiles(files, <<2, DefaultSeed>>)

\* C9: when the external PLIER process exits with a non-zero status the
\* call fails with CalledProcessError at that point: the tool was run once,
\* no output file is read, nothing is returned, and plier_df,
\* plier_weights and plier_test_df are as before the call.
C9_NonZeroExitFailsHard ==
    [][(d_last'.op = "plier" /\ d_last'.invocations > 0 /\ d_last'.exit # 0) =>
          /\ d_last'.exc = "CalledProcessError"
          /\ d_last'.invocations = 1
          /\ d_last'.read = 0
          /\ ~d_last'.returned
          /\ ~d_last'.projected
          /\ plier' = plier]_vars

C9_Witness ==
    /\ d_last.op = "plier"
    /\ d_last.exit # 0
    /\ d_last.exc = "CalledProcessError"
    /\ HasRun(plier)
    /\ plier.df[1].k # d_last.k

\* C10: a backend call that fails does not set that backend's embedding or
\* weight attribute, so the set of backends that combine_models,
\* combine_weight_matrix and compile_reconstruction treat as run is the
\* same after the failed call as before it.
C10_FailedCallSetsNothing ==
    [][(d_last'.op \in BackendOps /\ d_last'.exc # "none") =>
          /\ pca'.df = pca.df /\ pca'.weights = pca.weights
          /\ nmf'.df = nmf.df /\ nmf'.weights = nmf.weights
          /\ plier'.df = plier.df /\ plier'.weights = plier.weights
          /\ BackendsRun' = BackendsRun]_vars

\* the names of the backends that have been run, in the order pca, nmf, plier
RunNames == SelectSeq(<<"pca", "nmf", "plier">>, LAMBDA b : b \in BackendsRun)

TestEmbeddingOf(b) ==
    IF b = "pca" THEN pca.test_df ELSE IF b = "nmf" THEN nmf.test_df
    ELSE plier.test_df

C14_ReconstructionPerRunBackend ==
    [][d_last'.op = "compile_reconstruction" =>
         /\ UNCHANGED <<df, test_df, transform_fit, transform_test_fit,
                        pca, nmf, plier, files>>
         /\ d_last'.exc = "none" =>
              LET r == d_last'.result
                  target == IF d_last'.test_set THEN test_df[1] ELSE df[1]
              IN /\ d_last'.returned
                 /\ Range(d_last'.costs) = BackendsRun
                 /\ {r[i].name : i \in 1..Len(r)} = BackendsRun
                 /\ Len(r) = Cardinality(BackendsRun)
                 /\ Len(d_last'.costs) = Cardinality(BackendsRun)
                 /\ \A i \in 1..Len(r) :
                       /\ r[i].index = target.rows
                       /\ r[i].columns =
                            IF r[i].name = "plier" THEN plier.weights[1].genes
                            ELSE target.genes]_vars

C14_Witness ==
    /\ d_last.op = "compile_reconstruction"
    /\ d_last.exc = "none"
    /\ ~d_last.test_set
    /\ test_df = <<>>
    /\ BackendsRun = {"pca"}
    /\ d_last.costs = <<"pca">>

\* C13: the constructor called with a preloaded matrix and select_columns
\* succeeds, with or without a test matrix.
C13_SelectColumnsConstructs ==
    (d_last.op = "init" /\ d_last.select_columns) => d_last.exc = "none"

\* C16: a stored test-projection embedding of pca / nmf was computed by the
\* backend's currently stored fit, the one that also produced the stored
\* in-sample embedding and weights.
C16_TestEmbeddingFromCurrentFit ==
    \A attrs \in {pca, nmf} :
        attrs.test_df # <<>> =>
            /\ attrs.fit = <<attrs.test_df[1].fit>>
            /\ attrs.df # <<>> /\ attrs.df[1].fit = attrs.test_df[1].fit
            /\ attrs.weights # <<>> /\ attrs.weights[1].fit = attrs.test_df[1].fit

\* C17: after a successful plier call the stored PLIER embedding and
\* weight matrix are the tool's output for the current training matrix.
C17_PlierOutputOfCurrentMatrix ==
    (d_last.op = "plier" /\ d_last.exc = "none") =>
        /\ plier.df[1].fit.on = df[1]
        /\ plier.weights[1].fit.on = df[1]

====
